---- MODULE Spec2Model ----
(***************************************************************************)
(* Model of the purple_swan risk analytics: the historical VaR engine      *)
(* (analytics/var/var_engine.py) and the factor risk calculator            *)
(* (analytics/factor_risk/factor_risk_calculator.py).                      *)
(*                                                                         *)
(* Numbers.  A float64 cell is a record [nan, v]: either NaN or the exact  *)
(* integer v, counted in units small enough that every product and sum the *)
(* model forms is exact in float64 as well.  Equality of two cells is      *)
(* sameness of the value (NaN is the same as NaN); the order used for      *)
(* ranking is the one numpy sorts and partitions by, which puts NaN last.  *)
(* The confidence level arithmetic int((1.0 - ci) * T) is carried out on   *)
(* the 53-bit binary significands, bit by bit.                             *)
(*                                                                         *)
(* Indices stored in the state (idx, var_index, tail_indexes) are the      *)
(* 0-based indices of the Python code; At(s, i) reads s at such an index.  *)
(***************************************************************************)
EXTENDS Integers, Sequences, FiniteSets, TLC

VARIABLES
    df_time_series,  \* VarEngine.df_time_series: the price frame
    R,               \* VarEngine.R: the return matrix, a sequence of rows
    W,               \* VarEngine.W: the weight vector
    results,         \* the list returned by the last calc_var call
    engine_raised,   \* the exception the last calc_var call raised, "none" when it returned
    cis_arg,         \* the list of confidence levels passed to the last calc_var call
    np_memo,         \* what argpartition has answered so far on the engine's P, per k
    call_log,        \* the calls made so far with their outcomes, oldest first
    calls,           \* number of calc_var calls made so far
    P_in,            \* calc_var_core called on its own: argument P
    cis_in,          \* calc_var_core called on its own: argument cis
    core,            \* calc_var_core called on its own: the returned triple
    factor_cov,      \* FactorRiskCalculator.C: the factor covariance matrix
    portfolio,       \* the Portfolio passed to the last calcualte_factor_risk
    factor_risk,     \* the FactorRisk it returned
    factor_raised,   \* the exception it raised, "none" when it returned
    loaders,         \* DataFactory._loaders: entity type -> loader
    first_loader,    \* per entity type, the loader of the first register call for it
    factory_log,     \* the DataFactory calls made so far with their outcomes, oldest first
    loader_calls,    \* the load and write calls the loaders have received, oldest first
    portfolios,      \* the list passed to PortfolioTSMatrixEnricher.enrich
    ts_data,         \* context["ts_data"]: the columns of the price frame
    ts_enriched,     \* whether PortfolioTSMatrixEnricher.enrich has run on the list
    held,            \* Portfolio._positions of the traded portfolio, in insertion order
    trade_log,       \* the Portfolio.trade calls so far: arguments and the positions before
    trade_raised,    \* the exception the last Portfolio.trade call raised, "none" when it returned
    enrichers,       \* EnvironmentRepository.enrichers: data type -> list of enrichers
    registered,      \* the register_enricher calls made so far, oldest first
    enrich_call      \* the last _enrich_data call: arguments, enrichers applied, returned value

vars == <<df_time_series, R, W, results, engine_raised, cis_arg, np_memo, call_log,
          calls, P_in, cis_in, core,
          factor_cov, portfolio, factor_risk, factor_raised,
          loaders, first_loader, factory_log, loader_calls,
          portfolios, ts_data, ts_enriched,
          held, trade_log, trade_raised,
          enrichers, registered, enrich_call>>
engineVars == <<df_time_series, R, W, results, engine_raised, cis_arg, np_memo, calls>>
coreVars == <<P_in, cis_in, core>>
factorVars == <<factor_cov, portfolio, factor_risk, factor_raised>>
factoryVars == <<loaders, first_loader, factory_log, loader_calls>>
tsEnrichVars == <<portfolios, ts_data, ts_enriched>>
tradeVars == <<held, trade_log, trade_raised>>
environmentVars == <<enrichers, registered, enrich_call>>
dataVars == <<factoryVars, tsEnrichVars, tradeVars, environmentVars>>
analyticsVars == <<engineVars, coreVars, factorVars, call_log>>

(***************************************************************************)
(* Bounds of the model.                                                    *)
(***************************************************************************)
MaxT == 4
MaxCells == 6
MaxCalls == 2
CoreMaxT == 5

Tickers == <<"A", "B">>
PriceSet == {1, 2}
WeightSet == {-1, 2}
\* confidence levels as written by the caller: <<c, d>> is the literal c/d
CiSet == {<<1, 10>>, <<1, 2>>, <<7, 10>>, <<4, 5>>}
\* the lists of confidence levels passed to calc_var
CisSet == {<<a>> : a \in CiSet} \cup {<<<<1, 2>>, <<7, 10>>>>, <<<<4, 5>>, <<1, 10>>>>}
CoreValSet == {-1, 0, 1}
\* the worked example of the specification: ten daily P&L values, ci = 0.8
ScenarioPnL == <<-5, -3, -1, 0, 1, 2, 2, 3, 4, 5>>
ScenarioCi == <<4, 5>>
\* the longest P&L series of the model
MaxLen == IF MaxT + CoreMaxT > Len(ScenarioPnL) THEN MaxT + CoreMaxT ELSE Len(ScenarioPnL)

(***************************************************************************)
(* float64 cells                                                           *)
(***************************************************************************)
NaN == [nan |-> TRUE, v |-> 0]
Fin(x) == [nan |-> FALSE, v |-> x]

FAdd(a, b) == IF a.nan \/ b.nan THEN NaN ELSE Fin(a.v + b.v)
FSub(a, b) == IF a.nan \/ b.nan THEN NaN ELSE Fin(a.v - b.v)
FMul(a, b) == IF a.nan \/ b.nan THEN NaN ELSE Fin(a.v * b.v)
FNeg(a) == IF a.nan THEN NaN ELSE Fin(0 - a.v)

\* numpy's order on floats when sorting and partitioning: a < b, NaN last
NpLess(a, b) == IF a.nan THEN FALSE ELSE IF b.nan THEN TRUE ELSE a.v < b.v
NpLeq(a, b) == ~NpLess(b, a)

At(s, i) == s[i + 1]

RECURSIVE FSum(_)
FSum(s) == IF s = <<>> THEN Fin(0) ELSE FAdd(FSum(SubSeq(s, 1, Len(s) - 1)), s[Len(s)])

(***************************************************************************)
(* float64 arithmetic of  k = int((1.0 - ci) * T)                          *)
(* A non-negative number below 2^IntBits is a sequence of IntBits+FracBits *)
(* bits, most significant first.                                           *)
(***************************************************************************)
MantBits == 53
IntBits == 5
FracBits == MantBits + 8
NumBits == IntBits + FracBits

ZeroBits == [i \in 1..NumBits |-> 0]

RECURSIVE Pow2Mod(_, _)
Pow2Mod(n, d) ==
    IF n = 0 THEN 1 % d
    ELSE LET h == Pow2Mod(n \div 2, d)
         IN (((h * h) % d) * (IF n % 2 = 1 THEN 2 ELSE 1)) % d

\* the binary expansion of the literal c/d (0 <= c/d < 2^IntBits), cut after
\* FracBits fractional bits; sticky tells whether anything was cut off.
\* Fractional bit i of c/d is floor(2 * (c * 2^(i-1) mod d) / d).
LiteralBits(c, d) ==
    LET ip == c \div d
        fr == c % d
    IN [bits |-> [i \in 1..NumBits |->
                    IF i <= IntBits THEN (ip \div (2 ^ (IntBits - i))) % 2
                    ELSE (2 * ((fr * Pow2Mod(i - IntBits - 1, d)) % d)) \div d],
        sticky |-> IF (fr * Pow2Mod(FracBits, d)) % d = 0 THEN 0 ELSE 1]

\* index of the most significant 1 bit, 0 when there is none
LeadingOne(bits) ==
    IF \A i \in 1..NumBits : bits[i] = 0 THEN 0
    ELSE CHOOSE i \in 1..NumBits : bits[i] = 1 /\ \A j \in 1..(i - 1) : bits[j] = 0

\* add one unit at bit position q: the carry runs up to the nearest 0 bit
AddOneAt(bits, q) ==
    IF \A i \in 1..q : bits[i] = 1 THEN bits
    ELSE LET z == CHOOSE i \in 1..q : bits[i] = 0 /\ \A j \in (i + 1)..q : bits[j] = 1
         IN [i \in 1..NumBits |-> IF i = z THEN 1 ELSE IF i > z /\ i <= q THEN 0 ELSE bits[i]]

\* round to nearest, ties to even, on MantBits significant bits
RoundNearestEven(x) ==
    LET p == LeadingOne(x.bits)
        q == p + MantBits - 1
    IN IF p = 0 \/ q >= NumBits THEN x.bits
       ELSE LET kept == [i \in 1..NumBits |-> IF i <= q THEN x.bits[i] ELSE 0]
                guard == x.bits[q + 1]
                rest == x.sticky = 1 \/ \E i \in (q + 2)..NumBits : x.bits[i] = 1
                up == guard = 1 /\ (rest \/ x.bits[q] = 1)
            IN IF up THEN AddOneAt(kept, q) ELSE kept

\* 1.0 - x for a float64 x with 0 <= x <= 1: exact difference, then rounded
OneMinus(bits) ==
    LET inv == [i \in 1..NumBits |-> IF i <= IntBits THEN 0 ELSE 1 - bits[i]]
        diff == IF LeadingOne(bits) = 0 THEN [ZeroBits EXCEPT ![IntBits] = 1]
                ELSE AddOneAt(inv, NumBits)
    IN RoundNearestEven([bits |-> diff, sticky |-> 0])

\* the carry into bit i of the product bits * t (bits below i times t, halved up)
RECURSIVE Carry(_, _, _)
Carry(bits, t, i) ==
    IF i = NumBits THEN 0 ELSE (bits[i + 1] * t + Carry(bits, t, i + 1)) \div 2

\* x * T for a float64 x and a small integer T: exact product, then rounded
TimesInt(bits, t) ==
    IF LeadingOne(bits) = 0 THEN bits
    ELSE LET prod == [i \in 1..NumBits |-> (bits[i] * t + Carry(bits, t, i)) % 2]
         IN RoundNearestEven([bits |-> prod, sticky |-> 0])

\* int(x): the integer part
RECURSIVE BitsValue(_, _)
BitsValue(bits, n) == IF n = 0 THEN 0 ELSE 2 * BitsValue(bits, n - 1) + bits[n]

IntOf(bits) == BitsValue(bits, IntBits)

Float64(ci) == RoundNearestEven(LiteralBits(ci[1], ci[2]))

\* k = int((1.0 - ci) * T)
KOf(ci, T) == IntOf(TimesInt(OneMinus(Float64(ci)), T))

\* the values of k for the confidence levels and lengths of the model
KTable == [ci \in CiSet |-> [T \in 1..MaxLen |-> KOf(ci, T)]]

(***************************************************************************)
(* numpy: sort, partition, argpartition                                    *)
(***************************************************************************)
Range(s) == {s[i] : i \in DOMAIN s}

RECURSIVE Orderings(_)
Orderings(S) ==
    IF S = {} THEN {<<>>}
    ELSE UNION {{<<x>> \o o : o \in Orderings(S \ {x})} : x \in S}

\* numpy.argpartition(P, k) for 0 <= k < T: some permutation idx of the 0-based
\* indices with P[idx[k]] in its sorted position, nothing larger before it and
\* nothing smaller after it.  Which of these permutations comes back is left
\* to numpy's selection algorithm; the model allows every one of them.
\* argpartition_head is the set of the possible idx[:k+1].
argpartition_head(P, k) ==
    LET I == 0..(Len(P) - 1)
        Split == {hm \in (SUBSET I) \X I :
                     /\ Cardinality(hm[1]) = k
                     /\ hm[2] \notin hm[1]
                     /\ \A i \in hm[1] : NpLeq(At(P, i), At(P, hm[2]))
                     /\ \A i \in I \ (hm[1] \cup {hm[2]}) : NpLeq(At(P, hm[2]), At(P, i))}
    IN UNION {{h \o <<hm[2]>> : h \in Orderings(hm[1])} : hm \in Split}

argpartition(P, k) ==
    LET I == 0..(Len(P) - 1)
    IN UNION {{h \o r : r \in Orderings(I \ Range(h))} : h \in argpartition_head(P, k)}

\* numpy.sort(P): ascending, NaN last
RECURSIVE SortedCopy(_)
SortedCopy(P) ==
    IF P = <<>> THEN <<>>
    ELSE LET m == CHOOSE i \in 1..Len(P) : \A j \in 1..Len(P) :
                      NpLess(P[i], P[j]) \/ (~NpLess(P[j], P[i]) /\ i <= j)
         IN <<P[m]>> \o SortedCopy(SubSeq(P, 1, m - 1) \o SubSeq(P, m + 1, Len(P)))

\* numpy.partition(P, k)[k]: the value of rank k (0-based)
KthValue(P, k) == At(SortedCopy(P), k)

(***************************************************************************)
(* calc_var_core(P, cis): the set of triples (vars_, ks, idxs) it can      *)
(* return, one entry per confidence level                                  *)
(***************************************************************************)
RECURSIVE IdxChoices(_, _)
IdxChoices(P, ks) ==
    IF ks = <<>> THEN {<<>>}
    ELSE {<<idx>> \o rest : idx \in argpartition(P, ks[1]), rest \in IdxChoices(P, Tail(ks))}

\* k for a level c/d that is a binary fraction (0.0, 1.0, -0.5, 1.5): 1.0 - ci
\* and its product with T are exact, and int() cuts towards zero
KExact(ci, T) ==
    LET n == (ci[2] - ci[1]) * T
    IN IF n >= 0 THEN n \div ci[2] ELSE 0 - ((0 - n) \div ci[2])

\* k = int((1.0 - ci) * T); for T = 0 the product is zero
KAt(ci, T) ==
    IF T = 0 THEN 0 ELSE IF ci \in CiSet THEN KTable[ci][T] ELSE KExact(ci, T)

\* a slip: the k of the first level used for every level
KsOf_first(P, cis) == [i \in 1..Len(cis) |-> KAt(cis[1], Len(P))]

\* ks[i] = int((1.0 - cis[i]) * T)
KsOf(P, cis) == [i \in 1..Len(cis) |-> KAt(cis[i], Len(P))]

\* a negative kth or index k counts from the end: numpy reads it as k + T
norm_kth(T, k) == IF k < 0 THEN k + T ELSE k

\* what calc_var_core raises, "none" when it returns.  argpartition(P, k)
\* raises ValueError (kth out of bounds) unless -T <= k < T.  On an empty P
\* either argpartition raises that ValueError or it returns an empty idx and
\* idx[k] raises IndexError, depending on the numpy build.
core_errors(P, ks) ==
    LET T == Len(P)
        bad == {i \in 1..Len(ks) : norm_kth(T, ks[i]) < 0 \/ norm_kth(T, ks[i]) >= T}
    IN IF bad = {} THEN {"none"}
       ELSE IF T = 0 THEN {"ValueError", "IndexError"}
       ELSE {"ValueError"}

calc_var_core(P, cis) ==
    LET ks == KsOf(P, cis)
    IN {[vars_ |-> [i \in 1..Len(cis) |-> FNeg(At(P, At(idxs[i], ks[i])))],
         ks |-> ks,
         idxs |-> idxs] : idxs \in IdxChoices(P, ks)}

\* before calc_var_core has returned; an engine built without a price frame
NoCore == [vars_ |-> <<>>, ks |-> <<>>, idxs |-> <<>>]
NoFrame == [columns |-> <<>>, values |-> <<>>]
\* before calcualte_factor_risk has been called
NoMatrix == [index |-> <<>>, columns |-> <<>>, values |-> <<>>]
NoPortfolio == [positions |-> <<>>, factor_matrix_is |-> "None", factor_matrix |-> NoMatrix]
NoRisk == [portfolio_var |-> 0, portfolio_std |-> [sqrt_of |-> 0], marginal_risk |-> <<>>]

NoEngine ==
    /\ df_time_series = NoFrame /\ R = <<>> /\ W = <<>>
    /\ results = <<>> /\ engine_raised = "none" /\ calls = 0
    /\ cis_arg = <<>> /\ np_memo = {}
NoCoreCall == P_in = <<>> /\ cis_in = <<>> /\ core = NoCore
NoFactor ==
    factor_cov = <<>> /\ portfolio = NoPortfolio /\ factor_risk = NoRisk /\ factor_raised = "none"

\* the entity types and loaders the factory is driven with
EntityTypes == {"instrument", "portfolio", "position"}
LoaderNames == {"loader_a", "loader_b"}
Loaders == [name : LoaderNames, entity_type : EntityTypes]
\* Python's None where a loader is expected: what dict.get answers for a missing key
NoLoader == [name |-> "None", entity_type |-> "None"]
\* DataFactory.__init__: an empty registry
EmptyRegistry == [t \in EntityTypes |-> NoLoader]
NoFactory ==
    /\ loaders = EmptyRegistry /\ first_loader = EmptyRegistry
    /\ factory_log = <<>> /\ loader_calls = <<>>

\* no list has been handed to PortfolioTSMatrixEnricher.enrich
NoTSEnrich == portfolios = <<>> /\ ts_data = <<>> /\ ts_enriched = FALSE

\* Portfolio.trade has not been called
NoTrade == held = <<>> /\ trade_log = <<>> /\ trade_raised = "none"

\* the data types enrichers are registered under
DataTypes == {"Position", "Portfolio"}
\* EnvironmentRepository.__init__: no enricher registered, _enrich_data not called
NoEnrichCall ==
    [data_type |-> "None", data |-> <<>>, seen |-> <<>>,
     raised |-> "none", applied |-> <<>>, returned |-> <<>>]
NoEnvironment ==
    /\ enrichers = [t \in DataTypes |-> <<>>]
    /\ registered = <<>>
    /\ enrich_call = NoEnrichCall

NoData == NoFactory /\ NoTSEnrich /\ NoTrade /\ NoEnvironment
NoAnalytics == NoEngine /\ NoCoreCall /\ NoFactor /\ call_log = <<>>

(***************************************************************************)
(* VarEngine                                                               *)
(***************************************************************************)
SetMax(S) == CHOOSE x \in S : \A y \in S : y <= x

\* returns are counted in units of 1/RUnit, which makes every quotient of two
\* prices of PriceSet a whole number of units
RUnit == SetMax(PriceSet)

\* DataFrame.pct_change(1): row t is price[t] / price[t-1] - 1, and the first
\* row, which has no previous row, is NaN in every column
PctChange(df) ==
    [t \in 1..Len(df.values) |->
        [j \in 1..Len(df.columns) |->
            IF t = 1 THEN NaN
            ELSE Fin((RUnit * df.values[t][j]) \div df.values[t - 1][j] - RUnit)]]

\* R @ W
MatVec(M, w) == [t \in 1..Len(M) |-> FSum([j \in 1..Len(w) |-> FMul(M[t][j], w[j])])]

RECURSIVE Gcd(_, _)
Gcd(a, b) == IF b = 0 THEN a ELSE Gcd(b, a % b)

Abs(x) == IF x < 0 THEN 0 - x ELSE x

\* a quotient of two integers in lowest terms, as one float64 value
Quot(n, d) ==
    LET g == Gcd(Abs(n), d)
    IN [nan |-> FALSE, num |-> n \div g, den |-> d \div g]

QNaN == [nan |-> TRUE, num |-> 0, den |-> 1]

\* numpy.mean of a list of floats; the mean of the empty list is NaN
NpMean(s) ==
    LET t == FSum(s)
    IN IF s = <<>> \/ t.nan THEN QNaN ELSE Quot(t.v, Len(s))

\* es = np.mean([P[i] for i in idx[:k]])
es_of(P, idx, k) == NpMean([i \in 1..k |-> At(P, idx[i])])

\* a slip: the value of calc_var_core passed on as it is
var_of_core(vars_i) == vars_i

\* var = -1 * float(vars_[i])
var_of(vars_i) == FNeg(vars_i)

\* P_wo = P[:, None] - self.R * self.W
P_wo_of(P, Rm, Wv) ==
    [t \in 1..Len(P) |-> [j \in 1..Len(Wv) |-> FSub(P[t], FMul(Rm[t][j], Wv[j]))]]

\* kth_vals = np.partition(P_wo, k, axis=0)[k, :]
kth_vals_of(P_wo, N, k) ==
    [j \in 1..N |-> KthValue([t \in 1..Len(P_wo) |-> P_wo[t][j]], k)]

\* a slip: the leave-one-out VaR alone
mar_var_of_wo(v, kth_vals) == [j \in 1..Len(kth_vals) |-> FNeg(kth_vals[j])]

\* var_wo = -kth_vals ; mar_var = var - var_wo
mar_var_of(v, kth_vals) ==
    LET var_wo == [j \in 1..Len(kth_vals) |-> FNeg(kth_vals[j])]
    IN [j \in 1..Len(kth_vals) |-> FSub(v, var_wo[j])]

\* a slip: k itself taken for the VaR day
var_idx_of_k(idx, k) == k

\* var_idx = int(idx[k])
var_idx_of(idx, k) == At(idx, k)

\* a slip: the contributions with the sign of a loss
inc_var_of_negated(Rm, Wv, t) == [j \in 1..Len(Wv) |-> FNeg(FMul(At(Rm, t)[j], Wv[j]))]

\* a slip: the row of returns without the weights
inc_var_of_unweighted(Rm, Wv, t) == [j \in 1..Len(Wv) |-> At(Rm, t)[j]]

\* inc_var = self.R[var_idx, :] * self.W
inc_var_of(Rm, Wv, t) == [j \in 1..Len(Wv) |-> FMul(At(Rm, t)[j], Wv[j])]

\* a slip: the slice idx[1:k+1], which drops the worst day for the VaR day
tail_of_shifted(idx, k) == SubSeq(idx, 2, k + 1)

\* idx = [int(i) for i in idx[:k]]
tail_of(idx, k) == SubSeq(idx, 1, k)

\* the Result built for confidence level ci from k and the partition idx:
\* the body of the loop of calc_var and the VaR constructor it ends with.
\* "self.marginal_var = marginal_var," stores a one-element tuple holding the
\* list; a list held inside another container is the record [items |-> ...].
VaR(ci, P, Rm, Wv, k, idx) ==
    LET es == es_of(P, idx, k)
        vars_i == FNeg(At(P, At(idx, k)))
        var == var_of(vars_i)
        P_wo == P_wo_of(P, Rm, Wv)
        kth_vals == kth_vals_of(P_wo, Len(Wv), k)
        mar_var == mar_var_of(var, kth_vals)
        var_idx == var_idx_of(idx, k)
        inc_var == inc_var_of(Rm, Wv, var_idx)
    IN [ci |-> ci,
        var |-> var,
        es |-> es,
        var_index |-> var_idx,
        tail_indexes |-> tail_of(idx, k),
        marginal_var |-> <<[items |-> mar_var]>>,
        incremental_var |-> inc_var]

\* the lists whose i-th entry is drawn from sets[i]
RECURSIVE ListsOver(_)
ListsOver(sets) ==
    IF sets = <<>> THEN {<<>>}
    ELSE {<<x>> \o rest : x \in sets[1], rest \in ListsOver(Tail(sets))}

\* VarEngine.calc_var(cis): the lists of Results it can return.  calc_var_core
\* gives ks[i] = k of cis[i] and lets idxs[i] be any member of
\* argpartition(P, ks[i]), independently for each i; Result i is built from
\* cis[i], ks[i] and idxs[i] alone, and of idxs[i] the loop reads idx[:k] and
\* idx[k] only.
\* a slip: a selection that is made afresh on every call
heads_for_fresh(P, k, memo) == argpartition_head(P, k)

\* argpartition is a deterministic algorithm: on the same P and k it returns
\* the same idx every time.  Which of the permitted ones is not known before
\* it has been asked once.
heads_for(P, k, memo) ==
    LET known == {m.head : m \in {x \in memo : x.k = k}}
    IN IF known # {} THEN known ELSE argpartition_head(P, k)

\* A negative k reads idx[k], idx[:k] and partition(..)[k] from the end, which
\* is what norm_kth(T, k) reads from the front.  When calc_var_core raises,
\* calc_var raises with it and returns nothing.
results_for(ci, P, Rm, Wv, k, memo) ==
    LET kn == norm_kth(Len(P), k)
        hs == heads_for(P, kn, memo)
    IN {[k |-> kn, head |-> idx, result |-> VaR(ci, P, Rm, Wv, kn, idx)] : idx \in hs}

\* memo is what argpartition has answered before on this P; a level whose k
\* was asked before, in an earlier call or earlier in this one, gets the same
\* idx again.  The outcome carries the memo grown by the answers of this call.
calc_var(Rm, Wv, cis, memo) ==
    LET P == MatVec(Rm, Wv)
        ks == KsOf(P, cis)
        errs == core_errors(P, ks)
        perLevel == [i \in 1..Len(cis) |-> results_for(cis[i], P, Rm, Wv, ks[i], memo)]
        runs == {l \in ListsOver(perLevel) :
                    \A i \in 1..Len(l) : \A j \in 1..Len(l) :
                        l[i].k = l[j].k => l[i].head = l[j].head}
    IN IF errs # {"none"} THEN {[raised |-> e, value |-> <<>>, memo |-> memo] : e \in errs}
       ELSE {[raised |-> "none",
              value |-> [i \in 1..Len(l) |-> l[i].result],
              memo |-> memo \cup {[k |-> l[i].k, head |-> l[i].head] : i \in 1..Len(l)}] :
                l \in runs}

\* a slip: only a weight vector longer than the row is refused
matmul_error_short(n, m) == IF n < m THEN "ValueError" ELSE "none"

\* P = self.R @ self.W: numpy refuses a (T, n) matrix times a vector of
\* length m # n with ValueError, whatever T is
matmul_error(n, m) == IF n # m THEN "ValueError" ELSE "none"

Frames ==
    LET Shapes == {tn \in (1..MaxT) \X (1..Len(Tickers)) : tn[1] * tn[2] <= MaxCells}
    IN UNION {{[columns |-> SubSeq(Tickers, 1, tn[2]), values |-> v] :
                  v \in [1..tn[1] -> [1..tn[2] -> PriceSet]]} : tn \in Shapes}

\* VarEngine.__init__(df_time_series, W)
Init ==
    /\ df_time_series \in Frames
    /\ R = PctChange(df_time_series)
    /\ W \in [1..Len(df_time_series.columns) -> {Fin(w) : w \in WeightSet}]
    /\ results = <<>>
    /\ engine_raised = "none"
    /\ cis_arg = <<>> /\ np_memo = {} /\ call_log = <<>>
    /\ calls = 0
    /\ NoCoreCall /\ NoFactor /\ NoData

\* the number of columns of self.R
RCols == IF R = <<>> THEN Len(df_time_series.columns) ELSE Len(R[1])

\* one call of VarEngine.calc_var(cis), cis taken from the set inputs: what
\* it does to the engine
CalcVarStep(inputs) ==
    /\ calls < MaxCalls
    /\ \E cis \in inputs :
          LET mm == matmul_error(RCols, Len(W))
              outs == IF mm # "none" THEN {[raised |-> mm, value |-> <<>>, memo |-> np_memo]}
                      ELSE calc_var(R, W, cis, np_memo)
          IN \E out \in outs :
                /\ results' = out.value
                /\ engine_raised' = out.raised
                /\ np_memo' = out.memo
                /\ cis_arg' = cis
    /\ calls' = calls + 1
    /\ UNCHANGED <<df_time_series, R, W, coreVars>>

\* the call, not written to the log
CalcVarFrom(inputs) ==
    /\ CalcVarStep(inputs)
    /\ UNCHANGED <<factorVars, call_log, dataVars>>

CalcVar == CalcVarFrom(CisSet)

Next == CalcVar

Spec == Init /\ [][Next]_vars

(***************************************************************************)
(* Properties of the Results of calc_var                                   *)
(***************************************************************************)
\* the portfolio P&L series P = R.W of the engine
PnL == MatVec(R, W)
NAssets == Len(W)
TimeIdx == 0..(Len(R) - 1)
\* the k the engine uses for the confidence level of Result r
KLevel(r) == KTable[r.ci][Len(R)]
\* the rank-k order statistic p_k of the P&L series for Result r
RankK(r) == KthValue(PnL, KLevel(r))
\* the same for the series without asset j: P[t] - R[t,j]*W[j]
RankKWithout(r, j) ==
    LET Pj == [t \in 1..Len(R) |-> FSub(PnL[t], FMul(R[t][j], W[j]))]
    IN KthValue(Pj, KLevel(r))
ResultIdx == 1..Len(results)
QLeq(a, b) == a.num * b.den <= b.num * a.den

\* C2: the var field of every Result equals -p_k, the sign-flipped rank-k
\* order statistic of the portfolio P&L series
C2_VarIsNegatedRankK ==
    \A i \in ResultIdx : results[i].var = FNeg(RankK(results[i]))

C5_MarginalIsFullMinusLeaveOneOut ==
    \A i \in ResultIdx : \A j \in 1..NAssets :
        results[i].marginal_var[1].items[j] =
            FSub(FNeg(RankK(results[i])), FNeg(RankKWithout(results[i], j)))

\* C6: with k >= 1, es is the mean of the P&L over the tail indices in the
\* loss-positive convention, and is at least the reported var
C6_EsIsLossPositiveTailMean ==
    \A i \in ResultIdx :
        LET r == results[i]
            tailsum == FSum([n \in 1..Len(r.tail_indexes) |-> At(PnL, r.tail_indexes[n])])
        IN KLevel(r) >= 1 /\ ~tailsum.nan /\ ~r.var.nan =>
              /\ r.es = Quot(0 - tailsum.v, Len(r.tail_indexes))
              /\ QLeq(Quot(r.var.v, 1), r.es)

\* C7: the tail set of every Result holds exactly k distinct time indices,
\* each with a P&L no larger than p_k, and no P&L outside the tail set is
\* smaller than one inside it
C7_TailIsTheKWorst ==
    \A i \in ResultIdx :
        LET r == results[i]
            tail == Range(r.tail_indexes)
        IN /\ Len(r.tail_indexes) = KLevel(r)
           /\ Cardinality(tail) = KLevel(r)
           /\ tail \subseteq TimeIdx
           /\ \A t \in tail : NpLeq(At(PnL, t), RankK(r))
           /\ \A t \in tail : \A u \in TimeIdx \ tail : NpLeq(At(PnL, t), At(PnL, u))

C7_Witness ==
    \E i \in ResultIdx :
        /\ Len(results[i].tail_indexes) = 2
        /\ At(PnL, results[i].tail_indexes[1]) # At(PnL, results[i].tail_indexes[2])
        /\ ~RankK(results[i]).nan

\* C8: var_index is a time index at which the portfolio P&L is the rank-k
\* order statistic, and incremental_var[j] = R[var_index, j] * W[j]
C8_VarDayAndIncremental ==
    \A i \in ResultIdx :
        LET r == results[i]
        IN /\ r.var_index \in TimeIdx
           /\ At(PnL, r.var_index) = RankK(r)
           /\ Len(r.incremental_var) = NAssets
           /\ \A j \in 1..NAssets :
                 r.incremental_var[j] = FMul(At(R, r.var_index)[j], W[j])

C8_Witness ==
    \E i \in ResultIdx :
        /\ NAssets = 2
        /\ KLevel(results[i]) >= 1
        /\ results[i].var_index # KLevel(results[i])
        /\ ~RankK(results[i]).nan
        /\ \E t \in TimeIdx : ~At(PnL, t).nan /\ At(PnL, t) # RankK(results[i])


SeqsOf(S, n) == [1..n -> S]

InitCore ==
    /\ \E T \in 1..CoreMaxT : P_in \in SeqsOf({Fin(x) : x \in CoreValSet} \cup {NaN}, T)
    /\ cis_in \in {<<a>> : a \in CiSet}
    /\ core = NoCore
    /\ NoEngine /\ NoFactor /\ call_log = <<>> /\ NoData

CallCore ==
    /\ core = NoCore
    /\ core' \in calc_var_core(P_in, cis_in)
    /\ UNCHANGED <<P_in, cis_in, engineVars, factorVars, call_log, dataVars>>

NextCore == CallCore

SpecCore == InitCore /\ [][NextCore]_vars

\* C1: calc_var_core uses k = floor((1 - ci) * T), and the value it selects,
\* P[idx[k]], is element k of the ascending sorted copy of P
ExactK(ci, T) == ((ci[2] - ci[1]) * T) \div ci[2]

C1_KIsFloorAndSelectionIsSorted ==
    core # NoCore =>
        \A i \in 1..Len(cis_in) :
            /\ core.ks[i] = ExactK(cis_in[i], Len(P_in))
            /\ At(P_in, At(core.idxs[i], core.ks[i])) = At(SortedCopy(P_in), core.ks[i])

(***************************************************************************)
(* The worked example: an engine whose return matrix is the single column  *)
(* ScenarioPnL, in some row order, with weight 1                           *)
(***************************************************************************)
SwapAt(s, a, b) == [s EXCEPT ![a] = s[b], ![b] = s[a]]
Rotate(s, r) == [t \in 1..Len(s) |-> s[((t + r - 1) % Len(s)) + 1]]
ScenarioOrders ==
    {Rotate(SwapAt(ScenarioPnL, 1, b), r) : b \in 1..Len(ScenarioPnL), r \in 0..(Len(ScenarioPnL) - 1)}

InitScenario ==
    /\ df_time_series = NoFrame
    /\ \E o \in ScenarioOrders : R = [t \in 1..Len(o) |-> <<Fin(o[t])>>]
    /\ W = <<Fin(1)>>
    /\ results = <<>>
    /\ engine_raised = "none"
    /\ cis_arg = <<>> /\ np_memo = {} /\ call_log = <<>>
    /\ calls = 0
    /\ NoCoreCall /\ NoFactor /\ NoData

CalcVarScenario == CalcVarFrom({<<ScenarioCi>>})

NextScenario == CalcVarScenario

SpecScenario == InitScenario /\ [][NextScenario]_vars

\* the 0-based positions of the value x in the P&L series
PositionsOf(x) == {t \in TimeIdx : At(PnL, t) = Fin(x)}

IsNumber(x) == "nan" \in DOMAIN x

\* C13: in every Result marginal_var is a vector of exactly N numbers and
\* incremental_var is a vector of exactly N numbers
C13_PerAssetVectorsHaveLengthN ==
    \A i \in ResultIdx :
        LET r == results[i]
        IN /\ Len(r.marginal_var) = NAssets
           /\ \A j \in 1..Len(r.marginal_var) : IsNumber(r.marginal_var[j])
           /\ Len(r.incremental_var) = NAssets
           /\ \A j \in 1..Len(r.incremental_var) : IsNumber(r.incremental_var[j])

\* C15: no Result is ever computed from a return matrix R that holds a
\* non-finite cell: whenever calc_var has returned Results, R is finite
C15_NonFiniteReturnsAreRefused ==
    results # <<>> => \A t \in 1..Len(R) : \A j \in 1..Len(R[t]) : ~R[t][j].nan

\* C17: calc_var never returns a Result whose es is NaN; with k = 0 the
\* call ends in an error instead
C17_EmptyTailIsNotNaN ==
    \A i \in ResultIdx : ~results[i].es.nan

(***************************************************************************)
(* The single-asset portfolio: one column of prices, weight 1.0            *)
(***************************************************************************)
InitSingle ==
    /\ \E T \in 1..MaxT :
          \E v \in [1..T -> [1..1 -> PriceSet]] :
              df_time_series = [columns |-> SubSeq(Tickers, 1, 1), values |-> v]
    /\ R = PctChange(df_time_series)
    /\ W = <<Fin(1)>>
    /\ results = <<>>
    /\ engine_raised = "none"
    /\ cis_arg = <<>> /\ np_memo = {} /\ call_log = <<>>
    /\ calls = 0
    /\ NoCoreCall /\ NoFactor /\ NoData

CalcVarSingle == CalcVarFrom(CisSet)

NextSingle == CalcVarSingle

SpecSingle == InitSingle /\ [][NextSingle]_vars

\* C12: for a single asset of weight 1.0 calc_var returns normally, and in
\* every Result the marginal VaR of the asset equals the Result's var
C12_SingleAssetMarginalIsFullVar ==
    calls > 0 =>
        /\ engine_raised = "none"
        /\ results # <<>>
        /\ \A i \in ResultIdx :
              /\ Len(results[i].marginal_var[1].items) = 1
              /\ results[i].marginal_var[1].items[1] = results[i].var

C12_Witness ==
    /\ calls > 0
    /\ NAssets = 1 /\ W[1] = Fin(1)
    /\ \E i \in ResultIdx :
          /\ ~results[i].var.nan
          /\ results[i].var.v # 0
          /\ results[i].marginal_var[1].items[1] = results[i].var

(***************************************************************************)
(* Inputs the engine is meant to refuse: confidence levels outside (0, 1), *)
(* a weight vector of the wrong length, a price frame without rows         *)
(***************************************************************************)
InvMaxT == 2

\* the levels 0.0, 1.0, -0.5 and 1.5
OutCiSet == {<<0, 1>>, <<1, 1>>, <<-1, 2>>, <<3, 2>>}
InvalidCisSet ==
    {<<a>> : a \in OutCiSet}
    \cup {<<<<1, 2>>>>, <<<<1, 2>>, <<1, 1>>>>, <<<<0, 1>>, <<1, 2>>>>}

InitInvalid ==
    /\ \E T \in 0..InvMaxT : \E n \in 1..Len(Tickers) :
          \E v \in [1..T -> [1..n -> PriceSet]] :
              df_time_series = [columns |-> SubSeq(Tickers, 1, n), values |-> v]
    /\ R = PctChange(df_time_series)
    /\ \E m \in 1..Len(Tickers) : W \in [1..m -> {Fin(w) : w \in WeightSet}]
    /\ results = <<>>
    /\ engine_raised = "none"
    /\ cis_arg = <<>> /\ np_memo = {} /\ call_log = <<>>
    /\ calls = 0
    /\ NoCoreCall /\ NoFactor /\ NoData

CalcVarInvalid == CalcVarFrom(InvalidCisSet)

NextInvalid == CalcVarInvalid

SpecInvalid == InitInvalid /\ [][NextInvalid]_vars

\* C14: a confidence level outside the open interval (0, 1) makes the call
\* fail, so every Result calc_var returns is for a level inside (0, 1)
C14_LevelsOutsideUnitIntervalAreRejected ==
    \A i \in ResultIdx :
        0 < results[i].ci[1] /\ results[i].ci[1] < results[i].ci[2]

FactorNames == <<"F1", "F2", "F3">>
\* <<number of positions, number of factors>> of the exposure matrices
FactorShapes == {<<1, 2>>, <<1, 3>>, <<2, 2>>, <<0, 2>>, <<1, 0>>}
ExposureSet == {0, 1}
PosWeightSet == {1, 2}
CovDiagSet == {0, 1, 2}
CovOffDiagSet == {-1, 0, 1}

\* x / d as numpy divides floats: 0/0 is NaN, x/0 is infinite (den = 0)
QDiv(n, d) ==
    IF d = 0 THEN (IF n = 0 THEN QNaN
                   ELSE [nan |-> FALSE, num |-> IF n > 0 THEN 1 ELSE -1, den |-> 0])
    ELSE IF d < 0 THEN Quot(0 - n, 0 - d)
    ELSE Quot(n, d)

RECURSIVE ISum(_)
ISum(s) == IF s = <<>> THEN 0 ELSE ISum(SubSeq(s, 1, Len(s) - 1)) + s[Len(s)]

\* a slip: the loadings added up without the weights
RowTimes_unweighted(w, M, ncols) == [f \in 1..ncols |-> ISum([i \in 1..Len(w) |-> M[i][f]])]

\* w @ M for a row vector w and a matrix M with Len(w) rows
RowTimes(w, M, ncols) == [f \in 1..ncols |-> ISum([i \in 1..Len(w) |-> w[i] * M[i][f]])]
\* M @ w.T for a matrix M and a row vector w
TimesCol(M, w) == [a \in 1..Len(M) |-> ISum([b \in 1..Len(w) |-> M[a][b] * w[b]])]
Dot(u, v) == ISum([a \in 1..Len(u) |-> u[a] * v[a]])

\* a slip: a calculator that answers from what an earlier call left behind
mr_of_stale(C, Wf) ==
    [a \in 1..Len(C) |-> IF factor_risk # NoRisk THEN 0 ELSE 2 * TimesCol(C, Wf)[a]]

\* mr = 2 * self.C @ W.T
mr_of(C, Wf) == [a \in 1..Len(C) |-> 2 * TimesCol(C, Wf)[a]]

\* risk_contr = (mr * W)[0]: mr is a column (F x 1) and W a row (1 x F), so
\* mr * W broadcasts to the F x F table mr[a] * W[b], and [0] is its first row
risk_contr_of(mr, Wf) == [b \in 1..Len(Wf) |-> mr[1] * Wf[b]]

\* risk_pct = risk_contr / (2 * V)
risk_pct_of(risk_contr, V) == [b \in 1..Len(risk_contr) |-> QDiv(risk_contr[b], 2 * V)]

\* a slip: a square root that returns NaN quietly for a negative argument
math_sqrt_quiet(V) == [raised |-> "none", value |-> [sqrt_of |-> V]]

\* C = math.sqrt(V): ValueError (math domain error) for a negative argument;
\* the root itself is kept as the symbol sqrt_of V
math_sqrt(V) ==
    [raised |-> IF V < 0 THEN "ValueError" ELSE "none", value |-> [sqrt_of |-> V]]

\* FactorRiskCalculator.calcualte_factor_risk(portfolio): what it raises and
\* the FactorRisk it returns.  A Portfolio has no attribute factor_matrix
\* until an enricher sets one, and reading it then raises AttributeError.
calcualte_factor_risk(C, p) ==
    IF p.factor_matrix_is = "unset" THEN [raised |-> "AttributeError", value |-> NoRisk]
    ELSE IF p.factor_matrix_is = "None" THEN [raised |-> "Exception", value |-> NoRisk]
    ELSE LET df_m == p.factor_matrix
             factors == df_m.columns
             w == [i \in 1..Len(df_m.index) |->
                      (CHOOSE pos \in Range(p.positions) : pos.ticker = df_m.index[i]).weight]
             Wf == RowTimes(w, df_m.values, Len(factors))
         IN IF Len(factors) # Len(C) THEN [raised |-> "ValueError", value |-> NoRisk]
            ELSE LET V == Dot(Wf, TimesCol(C, Wf))
                     root == math_sqrt(V)
                     mr == mr_of(C, Wf)
                     risk_contr == risk_contr_of(mr, Wf)
                     risk_pct == risk_pct_of(risk_contr, V)
                 IN IF root.raised # "none" THEN [raised |-> root.raised, value |-> NoRisk]
                    ELSE [raised |-> "none",
                          value |-> [portfolio_var |-> V,
                                     portfolio_std |-> root.value,
                                     marginal_risk |-> [b \in 1..Len(factors) |->
                                         [factor |-> factors[b], pct |-> risk_pct[b]]]]]

\* the covariance matrices of the model: symmetric 2 x 2 and diagonal 3 x 3
Covariances ==
    {<<<<a, c>>, <<c, b>>>> : a \in CovDiagSet, b \in CovDiagSet, c \in CovOffDiagSet}
    \cup {<<<<a, 0, 0>>, <<0, b, 0>>, <<0, 0, c>>>> :
              a \in CovDiagSet \ {0}, b \in CovDiagSet \ {0}, c \in CovDiagSet \ {0}}

\* the portfolios of the model: positions with weights and, unless the factor
\* matrix is None or was never set, one row of loadings per position
Portfolios ==
    LET Framed(sh) ==
            {[positions |-> [i \in 1..sh[1] |-> [ticker |-> Tickers[i], weight |-> ws[i]]],
              factor_matrix_is |-> "frame",
              factor_matrix |-> [index |-> SubSeq(Tickers, 1, sh[1]),
                                 columns |-> SubSeq(FactorNames, 1, sh[2]),
                                 values |-> m]] :
                ws \in [1..sh[1] -> PosWeightSet],
                m \in [1..sh[1] -> [1..sh[2] -> ExposureSet]]}
    IN UNION {Framed(sh) : sh \in FactorShapes}
       \cup {[positions |-> <<[ticker |-> Tickers[1], weight |-> 1]>>,
              factor_matrix_is |-> is,
              factor_matrix |-> NoMatrix] : is \in {"None", "unset"}}

\* FactorRiskCalculator.__init__(factor_cov)
InitFactor ==
    /\ factor_cov \in Covariances
    /\ portfolio = NoPortfolio
    /\ factor_risk = NoRisk
    /\ factor_raised = "none"
    /\ NoEngine /\ NoCoreCall /\ call_log = <<>> /\ NoData

\* one call of calcualte_factor_risk(portfolio), the portfolio taken from the
\* set ports: what it does to the calculator and the portfolio
CalcFactorStep(ports) ==
    /\ \E p \in ports :
          LET out == calcualte_factor_risk(factor_cov, p)
          IN /\ portfolio' = p
             /\ factor_risk' = out.value
             /\ factor_raised' = out.raised
    /\ UNCHANGED <<factor_cov, coreVars>>

\* the call, not written to the log
CalcFactorRisk ==
    /\ CalcFactorStep(Portfolios)
    /\ UNCHANGED <<engineVars, call_log, dataVars>>

NextFactor == CalcFactorRisk

SpecFactor == InitFactor /\ [][NextFactor]_vars

\* the quantities the claims speak of, for the portfolio of the last call
Called == portfolio # NoPortfolio
Returned == Called /\ factor_raised = "none"
PosWeights ==
    [i \in 1..Len(portfolio.factor_matrix.index) |->
        (CHOOSE pos \in Range(portfolio.positions) :
             pos.ticker = portfolio.factor_matrix.index[i]).weight]
\* W = w . E, the portfolio factor exposure
Exposure == RowTimes(PosWeights, portfolio.factor_matrix.values, Len(portfolio.factor_matrix.columns))
\* V = W . C . W^T
Variance == Dot(Exposure, TimesCol(factor_cov, Exposure))
\* m = 2 . C . W^T
Marginal == [a \in 1..Len(factor_cov) |-> 2 * TimesCol(factor_cov, Exposure)[a]]

QAdd(a, b) ==
    IF a.nan \/ b.nan THEN QNaN
    ELSE QDiv(a.num * b.den + b.num * a.den, a.den * b.den)

RECURSIVE QSum(_)
QSum(s) == IF s = <<>> THEN Quot(0, 1) ELSE QAdd(QSum(SubSeq(s, 1, Len(s) - 1)), s[Len(s)])

\* C9: whenever V > 0 the reported percentage contributions sum to 1
C9_PercentagesSumToOne ==
    Returned /\ Variance > 0 =>
        QSum([b \in 1..Len(factor_risk.marginal_risk) |-> factor_risk.marginal_risk[b].pct])
            = Quot(1, 1)

\* C10: the reported percentage of factor f is m_f * W_f / (2V), the f-th
\* marginal times the f-th exposure, and these contributions sum to 2V
C10_ContributionIsOwnMarginalTimesExposure ==
    Returned /\ Variance > 0 =>
        /\ \A f \in 1..Len(factor_risk.marginal_risk) :
              factor_risk.marginal_risk[f].pct = QDiv(Marginal[f] * Exposure[f], 2 * Variance)
        /\ ISum([f \in 1..Len(Exposure) |-> Marginal[f] * Exposure[f]]) = 2 * Variance

\* the exposure matrix of the last call is a frame whose columns match C
Computable ==
    /\ Called
    /\ portfolio.factor_matrix_is = "frame"
    /\ Len(portfolio.factor_matrix.columns) = Len(factor_cov)

\* C11: with a diagonal 3 x 3 covariance and exposures that are all equal
\* and non-zero, the percentage of factor f is C[f,f] / (C[0,0]+C[1,1]+C[2,2])
C11_DiagonalEqualExposureShares ==
    (/\ Returned /\ Computable
     /\ Len(factor_cov) = 3
     /\ \A a \in 1..3 : \A b \in 1..3 : a # b => factor_cov[a][b] = 0
     /\ Exposure[1] # 0
     /\ \A f \in 1..3 : Exposure[f] = Exposure[1])
    => \A f \in 1..3 :
          factor_risk.marginal_risk[f].pct =
              QDiv(factor_cov[f][f], factor_cov[1][1] + factor_cov[2][2] + factor_cov[3][3])

\* C18: a portfolio factor variance of exactly 0 is reported as an error: no
\* FactorRisk is returned with V = 0, and so none with a percentage that is
\* the outcome of a division by zero
C18_ZeroVarianceIsAnError ==
    Returned =>
        /\ factor_risk.portfolio_var # 0
        /\ \A f \in 1..Len(factor_risk.marginal_risk) :
              ~factor_risk.marginal_risk[f].pct.nan /\ factor_risk.marginal_risk[f].pct.den # 0

\* C19: a negative portfolio factor variance makes calcualte_factor_risk fail
\* with an error, and no FactorRisk is returned
C19_NegativeVarianceFails ==
    Computable /\ Variance < 0 =>
        factor_raised # "none" /\ factor_risk = NoRisk

C19_Witness ==
    /\ Computable
    /\ Variance < 0
    /\ factor_raised = "ValueError"
    /\ factor_risk = NoRisk

\* C20: calcualte_factor_risk fails when the exposure matrix was never set,
\* is None, has no rows or has no columns
C20_AbsentOrEmptyExposureFails ==
    (/\ Called
     /\ \/ portfolio.factor_matrix_is # "frame"
        \/ portfolio.factor_matrix.index = <<>>
        \/ portfolio.factor_matrix.columns = <<>>)
    => factor_raised # "none" /\ factor_risk = NoRisk

\* C25: portfolio_var is V = W.C.W^T for the exposures W_f = sum over the rows
\* i of w_i * E[i,f], w_i the weight of the position whose ticker labels row i,
\* and portfolio_std is the root of V
C25_ExposureVarianceAndVolatility ==
    Returned =>
        LET E == portfolio.factor_matrix
            n == Len(E.index)
            F == Len(E.columns)
            wgt(i) == (CHOOSE pos \in Range(portfolio.positions) : pos.ticker = E.index[i]).weight
            Wf == [f \in 1..F |-> ISum([i \in 1..n |-> wgt(i) * E.values[i][f]])]
            V == ISum([a \in 1..F |-> ISum([b \in 1..F |-> Wf[a] * factor_cov[a][b] * Wf[b]])])
        IN /\ factor_risk.portfolio_var = V
           /\ factor_risk.portfolio_std = [sqrt_of |-> V]

C25_Witness ==
    /\ Returned
    /\ Len(portfolio.positions) = 2
    /\ portfolio.positions[1].weight # portfolio.positions[2].weight
    /\ factor_risk.portfolio_var > 0
    /\ factor_cov[1][2] # 0
    /\ \A f \in 1..2 : Exposure[f] # 0

(***************************************************************************)
(* Repeated calls on one engine, each written to the log                   *)
(***************************************************************************)
InitRepeat ==
    /\ \E T \in 1..MaxT :
          \E v \in [1..T -> [1..1 -> PriceSet]] :
              df_time_series = [columns |-> SubSeq(Tickers, 1, 1), values |-> v]
    /\ R = PctChange(df_time_series)
    /\ W \in [1..1 -> {Fin(w) : w \in WeightSet}]
    /\ results = <<>>
    /\ engine_raised = "none"
    /\ cis_arg = <<>> /\ np_memo = {} /\ call_log = <<>>
    /\ calls = 0
    /\ NoCoreCall /\ NoFactor /\ NoData

\* one call of calc_var, written to the log with its outcome
CalcVarLogged(inputs) ==
    /\ CalcVarStep(inputs)
    /\ call_log' = Append(call_log, [op |-> "calc_var", arg |-> cis_arg',
                                      raised |-> engine_raised', value |-> results'])
    /\ UNCHANGED <<factorVars, dataVars>>

CalcVarRepeat == CalcVarLogged(CisSet)

NextRepeat == CalcVarRepeat

SpecRepeat == InitRepeat /\ [][NextRepeat]_vars

LogIdx == 1..Len(call_log)

\* C21: a call returns one Result per level, in input order, Result i for
\* cis[i], and Result i is the Result a call for cis[i] alone returns
C21_LevelsAreIndependent ==
    \A a \in LogIdx :
        call_log[a].raised = "none" =>
            /\ Len(call_log[a].value) = Len(call_log[a].arg)
            /\ \A i \in 1..Len(call_log[a].arg) :
                  /\ call_log[a].value[i].ci = call_log[a].arg[i]
                  /\ \A b \in LogIdx :
                        call_log[b].arg = <<call_log[a].arg[i]>> /\ call_log[b].raised = "none"
                            => call_log[b].value[1] = call_log[a].value[i]

C21_Witness ==
    \E a \in LogIdx : \E b \in LogIdx :
        /\ Len(call_log[a].arg) = 2
        /\ call_log[b].arg = <<call_log[a].arg[2]>>
        /\ call_log[a].raised = "none" /\ call_log[b].raised = "none"
        /\ call_log[a].value[1].var_index # call_log[a].value[2].var_index
        /\ call_log[b].value[1] = call_log[a].value[2]

PureMaxT == 2
MaxLog == 2

PureCisSet == {<<<<1, 2>>>>, <<<<4, 5>>>>}
PureCovariances == {<<<<1, 0>>, <<0, 1>>>>, <<<<2, 1>>, <<1, 1>>>>}
PurePortfolios ==
    {[positions |-> <<[ticker |-> Tickers[1], weight |-> 1]>>,
      factor_matrix_is |-> "frame",
      factor_matrix |-> [index |-> SubSeq(Tickers, 1, 1),
                         columns |-> SubSeq(FactorNames, 1, 2),
                         values |-> m]] : m \in [1..1 -> [1..2 -> ExposureSet]]}
    \cup {[positions |-> <<[ticker |-> Tickers[1], weight |-> 1]>>,
           factor_matrix_is |-> "None",
           factor_matrix |-> NoMatrix]}

InitPure ==
    /\ \E T \in 1..PureMaxT :
          \E v \in [1..T -> [1..1 -> PriceSet]] :
              df_time_series = [columns |-> SubSeq(Tickers, 1, 1), values |-> v]
    /\ R = PctChange(df_time_series)
    /\ W \in [1..1 -> {Fin(w) : w \in WeightSet}]
    /\ results = <<>>
    /\ engine_raised = "none"
    /\ cis_arg = <<>> /\ np_memo = {} /\ call_log = <<>>
    /\ calls = 0
    /\ factor_cov \in PureCovariances
    /\ portfolio = NoPortfolio
    /\ factor_risk = NoRisk
    /\ factor_raised = "none"
    /\ NoCoreCall /\ NoData

CalcVarPure ==
    /\ Len(call_log) < MaxLog
    /\ CalcVarLogged(PureCisSet)

\* one call of calcualte_factor_risk, written to the log with its outcome
CalcFactorPure ==
    /\ Len(call_log) < MaxLog
    /\ CalcFactorStep(PurePortfolios)
    /\ call_log' = Append(call_log, [op |-> "calcualte_factor_risk", arg |-> portfolio',
                                      raised |-> factor_raised', value |-> factor_risk'])
    /\ UNCHANGED <<engineVars, dataVars>>

NextPure == CalcVarPure \/ CalcFactorPure

SpecPure == InitPure /\ [][NextPure]_vars

\* the same operation on the same argument had the same outcome every time
LogConsistent ==
    \A a \in LogIdx : \A b \in LogIdx :
        call_log[a].op = call_log[b].op =>
            (call_log[a].arg = call_log[b].arg =>
                /\ call_log[a].raised = call_log[b].raised
                /\ call_log[a].value = call_log[b].value)

register_replacing(ls, loader) ==
    [raised |-> "none", loaders |-> [ls EXCEPT ![loader.entity_type] = loader]]

\* DataFactory.register: the outcome and the registry after it
register(ls, loader) ==
    LET key == loader.entity_type
    IN IF ls[key] # NoLoader
       THEN [raised |-> "ValueError", loaders |-> ls]
       ELSE [raised |-> "none", loaders |-> [ls EXCEPT ![key] = loader]]

\* DataFactory.get: the outcome and the loader returned
get(ls, entity_type) ==
    IF ls[entity_type] = NoLoader
    THEN [raised |-> "KeyError", value |-> NoLoader]
    ELSE [raised |-> "none", value |-> ls[entity_type]]

\* what a loader's own load or write can do: return, or raise an error of its own
LoaderOutcomes == {"none", "LoaderError"}

\* DataFactory.get_data: the outcomes, each with the loader calls it makes
get_data(ls, data_type) ==
    LET loader == ls[data_type]
    IN IF loader = NoLoader
       THEN {[raised |-> "KeyError", called |-> <<>>]}
       ELSE {[raised |-> o, called |-> <<[loader |-> loader, method |-> "load"]>>] :
                o \in LoaderOutcomes}

\* DataFactory.write_data: the outcomes, each with the loader calls it makes
write_data(ls, data_type) ==
    LET loader == ls[data_type]
    IN IF loader = NoLoader
       THEN {[raised |-> "KeyError", called |-> <<>>]}
       ELSE {[raised |-> o, called |-> <<[loader |-> loader, method |-> "write"]>>] :
                o \in LoaderOutcomes}

MaxFactoryCalls == 3

InitFactory == NoAnalytics /\ NoData

FactoryFrame == UNCHANGED <<analyticsVars, tsEnrichVars, tradeVars, environmentVars>>

Register ==
    /\ Len(factory_log) < MaxFactoryCalls
    /\ \E loader \in Loaders :
          LET out == register(loaders, loader)
              key == loader.entity_type
          IN /\ loaders' = out.loaders
             /\ first_loader' = IF first_loader[key] = NoLoader
                                 THEN [first_loader EXCEPT ![key] = loader]
                                 ELSE first_loader
             /\ factory_log' = Append(factory_log, [op |-> "register", arg |-> loader,
                                                     raised |-> out.raised])
    /\ UNCHANGED loader_calls
    /\ FactoryFrame

Get ==
    /\ Len(factory_log) < MaxFactoryCalls
    /\ \E entity_type \in EntityTypes :
          LET out == get(loaders, entity_type)
          IN factory_log' = Append(factory_log, [op |-> "get", arg |-> entity_type,
                                                  raised |-> out.raised])
    /\ UNCHANGED <<loaders, first_loader, loader_calls>>
    /\ FactoryFrame

GetData ==
    /\ Len(factory_log) < MaxFactoryCalls
    /\ \E data_type \in EntityTypes :
          \E out \in get_data(loaders, data_type) :
             /\ loader_calls' = loader_calls \o out.called
             /\ factory_log' = Append(factory_log, [op |-> "get_data", arg |-> data_type,
                                                     raised |-> out.raised])
    /\ UNCHANGED <<loaders, first_loader>>
    /\ FactoryFrame

WriteData ==
    /\ Len(factory_log) < MaxFactoryCalls
    /\ \E data_type \in EntityTypes :
          \E out \in write_data(loaders, data_type) :
             /\ loader_calls' = loader_calls \o out.called
             /\ factory_log' = Append(factory_log, [op |-> "write_data", arg |-> data_type,
                                                     raised |-> out.raised])
    /\ UNCHANGED <<loaders, first_loader>>
    /\ FactoryFrame

NextFactory == Register \/ Get \/ GetData \/ WriteData

SpecFactory == InitFactory /\ [][NextFactory]_vars

\* the call a step has just made
LastFactoryCall == factory_log'[Len(factory_log')]
FactoryUntouched == loaders' = loaders /\ loader_calls' = loader_calls

\* C27: every entity type maps to the first loader registered for it or to none;
\* registering a loader for a type that has one raises ValueError and changes
\* nothing; get, get_data and write_data for a type without a loader raise
\* KeyError, change nothing and call no loader.
C27_FirstLoaderWins ==
    [][/\ loaders' = first_loader'
       /\ (LastFactoryCall.op = "register"
             /\ first_loader[LastFactoryCall.arg.entity_type] # NoLoader)
           => (LastFactoryCall.raised = "ValueError" /\ FactoryUntouched)
       /\ (LastFactoryCall.op \in {"get", "get_data", "write_data"}
             /\ first_loader[LastFactoryCall.arg] = NoLoader)
           => (LastFactoryCall.raised = "KeyError" /\ FactoryUntouched)]_vars

\* a second loader for a registered type was turned away, a loader was asked for
\* a type that has none, and the registry still holds the first loader
C27_Witness ==
    /\ \E i \in 1..Len(factory_log) :
          /\ factory_log[i].op = "register"
          /\ factory_log[i].raised = "ValueError"
          /\ loaders[factory_log[i].arg.entity_type] # factory_log[i].arg
          /\ loaders[factory_log[i].arg.entity_type] # NoLoader
    /\ \E j \in 1..Len(factory_log) :
          /\ factory_log[j].op \in {"get", "get_data", "write_data"}
          /\ factory_log[j].raised = "KeyError"

(***************************************************************************)
(* PortfolioTSMatrixEnricher                                               *)
(***************************************************************************)
MaxPorts == 2
MaxHeld == 2
EnrichTickers == {"AAA", "BBB", "CCC"}
\* Portfolio.__post_init__: _ts_matrix = None
NoTSMatrix == [is_none |-> TRUE, columns |-> <<>>]
\* the keys of a positions dict in insertion order: no ticker twice
PositionOrders ==
    {o \in UNION {[1..n -> EnrichTickers] : n \in 0..MaxHeld} :
        \A a \in DOMAIN o : \A b \in DOMAIN o : o[a] = o[b] => a = b}
PortfolioSet == [positions : PositionOrders, ts_matrix : {NoTSMatrix}]
\* the price frames in the context: their column labels
TSDataSet == {<<"AAA", "BBB">>, <<"AAA">>}

\* lines 35-40: the one-column frame made for a position
frame_for(ticker, tickers) ==
    [ticker |-> ticker,
     data |-> IF \E c \in DOMAIN tickers : tickers[c] = ticker THEN "prices" ELSE "zeros"]

\* lines 34-41: the frames one portfolio appends to dfs
frames_of(port, tickers) ==
    [j \in 1..Len(port.positions) |-> frame_for(port.positions[j], tickers)]

\* dfs when the outer loop has finished portfolio i: line 32 makes the list
\* once, before the loop, and nothing empties it
RECURSIVE dfs_after(_, _, _)
dfs_after(ports, i, tickers) ==
    IF i = 0 THEN <<>>
    ELSE dfs_after(ports, i - 1, tickers) \o frames_of(ports[i], tickers)

\* PortfolioTSMatrixEnricher.enrich: the list it returns
ts_enrich(ports, tickers) ==
    [i \in 1..Len(ports) |->
        LET dfs == dfs_after(ports, i, tickers)
        IN IF Len(dfs) > 0
           THEN [ports[i] EXCEPT !.ts_matrix = [is_none |-> FALSE, columns |-> dfs]]
           ELSE ports[i]]

InitTSEnrich ==
    /\ NoAnalytics /\ NoFactory /\ NoTrade /\ NoEnvironment
    /\ portfolios \in UNION {[1..n -> PortfolioSet] : n \in 0..MaxPorts}
    /\ ts_data \in TSDataSet
    /\ ts_enriched = FALSE

TSEnrich ==
    /\ ~ts_enriched
    /\ portfolios' = ts_enrich(portfolios, ts_data)
    /\ ts_enriched' = TRUE
    /\ UNCHANGED <<ts_data, analyticsVars, factoryVars, tradeVars, environmentVars>>

NextTSEnrich == TSEnrich

SpecTSEnrich == InitTSEnrich /\ [][NextTSEnrich]_vars

\* the tickers a ts_matrix has as column labels, left to right
ColumnTickers(m) == [c \in 1..Len(m.columns) |-> m.columns[c].ticker]

\* C28: after enrich, every portfolio's ts_matrix has one column per position
\* of that portfolio, in the portfolio's position order, and no other column.
C28_OwnColumnsOnly ==
    ts_enriched =>
        \A i \in 1..Len(portfolios) :
            ColumnTickers(portfolios[i].ts_matrix) = portfolios[i].positions

(***************************************************************************)
(* Portfolio.trade                                                         *)
(***************************************************************************)
MaxTrades == 2
HeldShares == {1, 2}
HeldPrices == {1, 2}
TradeShares == {-1, 1}
TradePrices == {1, 3}

\* sum([p.price * p.shares for t, p in self.positions.items()])
port_value_of(positions) == ISum([j \in 1..Len(positions) |-> positions[j].price * positions[j].shares])

\* the portfolios trade is called on: up to MaxHeld positions with shares,
\* prices and the weights that go with them
HeldSet ==
    {[j \in 1..Len(o) |->
        [ticker |-> o[j], shares |-> q[j].shares, price |-> q[j].price,
         weight |-> QDiv(q[j].shares * q[j].price,
                         ISum([x \in 1..Len(o) |-> q[x].shares * q[x].price]))]] :
        o \in PositionOrders, q \in [1..MaxHeld -> [shares : HeldShares, price : HeldPrices]]}

HasTicker(positions, ticker) == \E j \in 1..Len(positions) : positions[j].ticker = ticker

\* lines 80-83: the held position gets the traded shares added and the traded price
after_fill(positions, ticker, shares, price) ==
    [j \in 1..Len(positions) |->
        IF positions[j].ticker = ticker
        THEN [positions[j] EXCEPT !.shares = @ + shares, !.price = price]
        ELSE positions[j]]

\* lines 88-89: every position's weight from its shares, the traded price and
\* the portfolio value taken before the trade
after_weights(positions, price, new_port_value) ==
    [j \in 1..Len(positions) |->
        [positions[j] EXCEPT !.weight = QDiv(positions[j].shares * price, new_port_value)]]

\* Portfolio.trade: the exception raised and the positions it leaves
trade(positions, ticker, shares, price) ==
    LET trade_value == price * shares
        port_value == port_value_of(positions)
        new_port_value == port_value - trade_value + trade_value
        filled == after_fill(positions, ticker, shares, price)
    IN IF ~HasTicker(positions, ticker)
       THEN \* Position(ticker=, shares=, price=, cik=) lacks the required weight
            [raised |-> "TypeError", positions |-> positions]
       ELSE IF new_port_value = 0
       THEN [raised |-> "ZeroDivisionError", positions |-> filled]
       ELSE [raised |-> "none", positions |-> after_weights(filled, price, new_port_value)]

InitTrade ==
    /\ NoAnalytics /\ NoFactory /\ NoTSEnrich /\ NoEnvironment
    /\ held \in HeldSet
    /\ trade_log = <<>>
    /\ trade_raised = "none"

Trade ==
    /\ Len(trade_log) < MaxTrades
    /\ \E ticker \in EnrichTickers, shares \in TradeShares, price \in TradePrices :
          LET out == trade(held, ticker, shares, price)
          IN /\ held' = out.positions
             /\ trade_raised' = out.raised
             /\ trade_log' = Append(trade_log, [ticker |-> ticker, shares |-> shares,
                                                 price |-> price, positions |-> held])
    /\ UNCHANGED <<analyticsVars, factoryVars, tsEnrichVars, environmentVars>>

NextTrade == Trade

SpecTrade == InitTrade /\ [][NextTrade]_vars

PositionOf(positions, ticker) == CHOOSE q \in {positions[j] : j \in 1..Len(positions)} : q.ticker = ticker
TickersOf(positions) == {positions[j].ticker : j \in 1..Len(positions)}

\* the last trade call
LastTrade == trade_log[Len(trade_log)]

\* C29: after trade(ticker, shares, price) a ticker not held before is held with
\* those shares and that price, a ticker held before has the traded shares more
\* and that price, every other position has the shares and price it had, and
\* the weights of all positions sum to 1.
C29_TradeUpdatesOnePositionAndReweights ==
    trade_log # <<>> =>
        LET t == LastTrade.ticker
            old == LastTrade.positions
        IN /\ trade_raised = "none"
           /\ TickersOf(held) = TickersOf(old) \cup {t}
           /\ PositionOf(held, t).price = LastTrade.price
           /\ PositionOf(held, t).shares =
                 IF HasTicker(old, t) THEN PositionOf(old, t).shares + LastTrade.shares
                 ELSE LastTrade.shares
           /\ \A u \in TickersOf(old) \ {t} :
                 /\ PositionOf(held, u).shares = PositionOf(old, u).shares
                 /\ PositionOf(held, u).price = PositionOf(old, u).price
           /\ QSum([j \in 1..Len(held) |-> held[j].weight]) = Quot(1, 1)

(***************************************************************************)
(* EnvironmentRepository                                                   *)
(***************************************************************************)
MaxRegistered == 4
Enrichers == {"PositionInstrumentEnricher", "PortfolioEnricher13F", "PortfolioTSMatrixEnricher"}

\* the can_enrich of each enricher class
can_enrich(enricher, data_type) ==
    IF enricher = "PositionInstrumentEnricher" THEN data_type = "Position"
    ELSE data_type = "Portfolio"

\* a value handed from enricher to enricher: None, or the list with the names
\* of the enrichers that have worked on it
NoneValue == [is_none |-> TRUE, by |-> <<>>]
LoadedData == [is_none |-> FALSE, by |-> <<>>]

\* the enrich of each enricher class: all three iterate over the list given,
\* PositionInstrumentEnricher.enrich has no return statement, the two portfolio
\* enrichers return the list
enrich_of(enricher, given) ==
    IF given.is_none THEN [raised |-> "TypeError", value |-> NoneValue]
    ELSE IF enricher = "PositionInstrumentEnricher"
    THEN [raised |-> "none", value |-> NoneValue]
    ELSE [raised |-> "none", value |-> [given EXCEPT !.by = Append(@, enricher)]]

\* a register_enricher that puts the new enricher first
register_enricher_first(es, enricher, data_type) ==
    [es EXCEPT ![data_type] = <<enricher>> \o @]

\* EnvironmentRepository.register_enricher: the dict after the call
register_enricher(es, enricher, data_type) ==
    [es EXCEPT ![data_type] = Append(@, enricher)]

\* the loop of _enrich_data from the i-th enricher of the list on
RECURSIVE enrich_loop(_, _, _, _, _)
enrich_loop(list, i, data_type, enriched, applied) ==
    IF i > Len(list)
    THEN [raised |-> "none", applied |-> applied, returned |-> enriched]
    ELSE IF ~can_enrich(list[i], data_type)
    THEN enrich_loop(list, i + 1, data_type, enriched, applied)
    ELSE LET out == enrich_of(list[i], enriched)
             now == Append(applied, [enricher |-> list[i], given |-> enriched])
             value == out.value
         IN IF out.raised # "none"
            THEN [raised |-> out.raised, applied |-> now, returned |-> NoneValue]
            ELSE enrich_loop(list, i + 1, data_type, value, now)

\* EnvironmentRepository._enrich_data
enrich_data(es, data, data_type) == enrich_loop(es[data_type], 1, data_type, data, <<>>)

InitEnvironment ==
    /\ NoAnalytics /\ NoFactory /\ NoTSEnrich /\ NoTrade
    /\ NoEnvironment

EnvironmentFrame == UNCHANGED <<analyticsVars, factoryVars, tsEnrichVars, tradeVars>>

RegisterEnricher ==
    /\ Len(registered) < MaxRegistered
    /\ \E enricher \in Enrichers, data_type \in DataTypes :
          /\ enrichers' = register_enricher(enrichers, enricher, data_type)
          /\ registered' = Append(registered, [enricher |-> enricher, data_type |-> data_type])
    /\ UNCHANGED enrich_call
    /\ EnvironmentFrame

EnrichData ==
    /\ \E data_type \in DataTypes :
          LET out == enrich_data(enrichers, LoadedData, data_type)
          IN enrich_call' = [data_type |-> data_type, data |-> LoadedData, seen |-> registered,
                             raised |-> out.raised, applied |-> out.applied,
                             returned |-> out.returned]
    /\ UNCHANGED <<enrichers, registered>>
    /\ EnvironmentFrame

NextEnvironment == RegisterEnricher \/ EnrichData

SpecEnvironment == InitEnvironment /\ [][NextEnvironment]_vars

\* of the registrations seen, in order, the enrichers registered under the data
\* type whose can_enrich accepts it
RECURSIVE Eligible(_, _)
Eligible(seen, data_type) ==
    IF seen = <<>> THEN <<>>
    ELSE LET rest == Eligible(SubSeq(seen, 1, Len(seen) - 1), data_type)
             r == seen[Len(seen)]
         IN IF r.data_type = data_type /\ can_enrich(r.enricher, data_type)
            THEN Append(rest, r.enricher)
            ELSE rest

AppliedNames == [i \in 1..Len(enrich_call.applied) |-> enrich_call.applied[i].enricher]

\* C30: _enrich_data applies, in registration order, the enrichers registered
\* under the data type whose can_enrich accepts it and no other; the first gets
\* the loaded data, each later one the value the one before it returned; the
\* call returns the last applied enricher's return value, or the loaded data
\* when none was applied. (When an enricher raises, the ones after it are not
\* reached and nothing is returned.)
C30_EnrichersChainInRegistrationOrder ==
    enrich_call.data_type # "None" =>
        LET elig == Eligible(enrich_call.seen, enrich_call.data_type)
            applied == enrich_call.applied
            n == Len(applied)
        IN /\ n <= Len(elig)
           /\ AppliedNames = SubSeq(elig, 1, n)
           /\ \A i \in 1..n :
                 applied[i].given =
                    IF i = 1 THEN enrich_call.data
                    ELSE enrich_of(applied[i - 1].enricher, applied[i - 1].given).value
           /\ enrich_call.raised = "none" =>
                 /\ n = Len(elig)
                 /\ enrich_call.returned =
                       IF n = 0 THEN enrich_call.data
                       ELSE enrich_of(applied[n].enricher, applied[n].given).value

\* two enrichers were applied one after the other and the call returned, while
\* an enricher registered under another type and one whose can_enrich is false
\* were passed over
C30_Witness ==
    /\ enrich_call.data_type = "Portfolio"
    /\ enrich_call.raised = "none"
    /\ Len(enrich_call.applied) = 2
    /\ enrich_call.applied[1].enricher # enrich_call.applied[2].enricher
    /\ enrich_call.returned.by = AppliedNames
    /\ \E i \in 1..Len(enrich_call.seen) :
          /\ enrich_call.seen[i].data_type = "Portfolio"
          /\ ~can_enrich(enrich_call.seen[i].enricher, "Portfolio")
    /\ \E i \in 1..Len(enrich_call.seen) : enrich_call.seen[i].data_type = "Position"
====
